---- MODULE Spec2Model ----
(***************************************************************************)
(* A model of mcp-hub's two subsystems, translated from src/src/MCPHub.js: *)
(*   - WorkspaceCacheManager: the registry document workspaces.json shared *)
(*     by every hub process, and its lock file workspaces.json.lock;       *)
(*   - MCPHub: the map of named server connections.                       *)
(* Every await of the source is a step boundary: an action is the code    *)
(* between two awaits of one task.                                        *)
(***************************************************************************)
EXTENDS Integers, Sequences, FiniteSets, TLC

\* ------------------------------------------------------------- bounds
\* Number of calls of the registry's public methods made in one run, by one
\* or by several processes, one after the other or concurrently.
MaxCalls == 2
\* Longest time (in time units) the lock file is held by somebody else in
\* the timed specification of _withLock.
MaxHold == 520
\* Number of calls of the hub's public methods made in one run, one after the
\* other or concurrently (the tasks of one hub process).
MaxHubCalls == 2

\* ------------------------------------------------- program constants
maxRetries == 10
retryDelay == 50

\* ----------------------------------------------------- value domains
\* A task is one call of a public method: an async function running.
Tasks == 1..MaxCalls
\* A process makes one or more of the calls.  Pid 0 is a hub that ended
\* before the run began, without deregistering.
Gone == 0
Pids == 0..MaxCalls
\* process.cwd() of a hub process.
Keys == {"/w1", "/w2"}
\* The port a hub process listens on, which it passes to register(port).
Port(p) == 3000 + p
\* new Date().toISOString() in call t: the calls are numbered as they begin.
Now(t) == t
Times == 0..MaxCalls

\* No entry under a key of the table (cache[key] is undefined).
NoRow == [pid |-> -1, port |-> 0, startTime |-> 0]
\* workspaces.json.lock does not exist.
NoLock == 0
\* workspaces.json.lock was created by a process outside Tasks.
External == -1
\* workspaces.json does not exist (fs.access and fs.readFile fail with ENOENT).
NoFile == [exists |-> FALSE, rows |-> {}]
File(rows) == [exists |-> TRUE, rows |-> rows]

Entries == {[pid |-> p, port |-> Port(p), startTime |-> s] : p \in Pids, s \in Times}
\* The parsed document: workspace key -> entry.  A key without a row maps to NoRow.
Tables == [Keys -> Entries \cup {NoRow}]
EmptyTable == [k \in Keys |-> NoRow]

VARIABLES
  pidOf,      \* task -> pid of the process running it (process.pid)
  cwd,        \* pid -> workspace key (process.cwd())
  alive,      \* pid -> whether the process runs (what process.kill(pid, 0) probes)
  doc,        \* workspaces.json: NoFile, or File(the rows of its text)
  lockFile,   \* workspaces.json.lock: NoLock, or the task that created it
  pc,         \* task -> the await it is suspended at
  op,         \* task -> the public method it is running
  attempt,    \* task -> loop variable of _withLock
  cache,      \* task -> local variable cache / cleanedCache
  entry,      \* task -> local variable entry of register
  err,        \* task -> the error being propagated, "none" if none
  res,        \* task -> how the finished call ended: "ok" or "raised"
  wrote,      \* task -> history: the call has written the document
  snap,       \* task -> history: the table cleanupStaleEntries read
  probed,     \* task -> history: the pids cleanupStaleEntries found running
  registered, \* pid -> history: entry of its last successful register, NoRow if none or deregistering
  now,        \* timed specification: time since the caller's first attempt
  heldUntil   \* timed specification: when the other holder removes the lock file

VARIABLES
  config,            \* configManager.getConfig().mcpServers: its entries, in order
  connections,       \* this.connections: server name -> connection, NoConn if no entry
  nextConn,          \* number of MCPConnection objects constructed so far
  conns,             \* connection -> its name and status (what getServerInfo reports)
  connectInvoked,    \* history: the connections connect() was called on
  disconnectInvoked, \* history: the connections disconnect() was called on
  hubCall            \* hub task -> the call it runs: its position, locals and result

rvars == <<pidOf, cwd, alive, doc, lockFile, pc, op, attempt, cache, entry, err,
           res, wrote, snap, probed, registered, now, heldUntil>>
hvars == <<config, connections, nextConn, conns, connectInvoked, disconnectInvoked,
           hubCall>>
vars == <<rvars, hvars>>

\* ------------------------------------------- the document on disk
\* JSON.stringify(cache, null, 2): one row of text per key that has an entry.
Stringify(table) ==
  {[key |-> k, pid |-> table[k].pid, port |-> table[k].port,
    startTime |-> table[k].startTime] : k \in {x \in Keys : table[x] # NoRow}}

\* JSON.parse(content || '{}').
Parse(content) ==
  [k \in Keys |->
     IF \E r \in content : r.key = k
       THEN LET r == CHOOSE x \in content : x.key = k
            IN [pid |-> r.pid, port |-> r.port, startTime |-> r.startTime]
       ELSE NoRow]

\* _readCache without an I/O error: a missing file reads as {}.
readCache == IF doc.exists THEN Parse(doc.rows) ELSE EmptyTable

getWorkspaceKey(t) == cwd[pidOf[t]]

\* Mutant: the probe's answer is inverted.
isProcessRunningInverted(pid) == ~alive[pid]

\* process.kill(pid, 0) does not throw.
isProcessRunning(pid) == alive[pid]

Live(t) == alive[pidOf[t]]

\* ------------------------------------------------------- task frame
Locals == <<attempt, cache, entry, err, res, wrote, snap, probed>>
Config == <<pidOf, cwd>>
Timed == <<now, heldUntil>>

Goto(t, label) == pc' = [pc EXCEPT ![t] = label]

\* A call ends, normally or by raising to its caller: its locals are gone.
\* What is kept of it is how it ended (res, err) and whether it wrote.
Finish(t, outcome) ==
  /\ Goto(t, "ret")
  /\ res' = [res EXCEPT ![t] = outcome]
  /\ attempt' = [attempt EXCEPT ![t] = 0]
  /\ cache' = [cache EXCEPT ![t] = EmptyTable]
  /\ entry' = [entry EXCEPT ![t] = NoRow]
  /\ snap' = [snap EXCEPT ![t] = EmptyTable]
  /\ probed' = [probed EXCEPT ![t] = {}]

\* Mutant: every catch block rethrows after logging.
RethrowsAlways(method) == TRUE

\* The catch block of a public method: register rethrows (line 311) and so
\* does initialize (line 279); deregister (line 338) and cleanupStaleEntries
\* (line 448) only log.
Rethrows(method) == method \in {"register", "initialize"}

\* The method whose try/catch surrounds _withLock: shutdown calls deregister.
LockedMethod(t) == IF op[t] = "shutdown" THEN "deregister" ELSE op[t]

\* _withLock has returned, or has thrown e: the catch block of the method
\* that called it, and what follows.  shutdown awaits deregister, and goes on
\* to removeAllListeners when deregister returns.
AfterLocked(t, e) ==
  IF e # "none" /\ Rethrows(LockedMethod(t))
    THEN Finish(t, "raised")
    ELSE IF op[t] = "shutdown"
           THEN /\ Goto(t, "removeAllListeners")
                /\ UNCHANGED <<res, attempt, cache, entry, snap, probed>>
           ELSE Finish(t, "ok")

\* ----------------------------------------------------------- calls
\* Call t begins: the calls are numbered in the order they begin.
Start(t, o, label) ==
  /\ Live(t)
  /\ pc[t] = "idle"
  /\ IF t = 1 THEN TRUE ELSE pc[t - 1] # "idle"
  /\ op' = [op EXCEPT ![t] = o]
  /\ Goto(t, label)

CallInitialize(t) ==
  /\ Start(t, "initialize", "access")
  /\ UNCHANGED <<hvars, Config, alive, doc, lockFile, Locals, registered, Timed>>

CallRegister(t) ==
  /\ Start(t, "register", "lock")
  /\ entry' = [entry EXCEPT ![t] =
                [pid |-> pidOf[t], port |-> Port(pidOf[t]), startTime |-> Now(t)]]
  /\ UNCHANGED <<hvars, Config, alive, doc, lockFile, attempt, cache, err, res, wrote,
                 snap, probed, registered, Timed>>

CallDeregister(t) ==
  /\ Start(t, "deregister", "lock")
  /\ registered' = [registered EXCEPT ![pidOf[t]] = NoRow]
  /\ UNCHANGED <<hvars, Config, alive, doc, lockFile, Locals, Timed>>

CallCleanupStaleEntries(t) ==
  /\ Start(t, "cleanupStaleEntries", "lock")
  /\ UNCHANGED <<hvars, Config, alive, doc, lockFile, Locals, registered, Timed>>

CallGetActiveWorkspaces(t) ==
  /\ Start(t, "getActiveWorkspaces", "get")
  /\ UNCHANGED <<hvars, Config, alive, doc, lockFile, Locals, registered, Timed>>

CallShutdown(t) ==
  /\ Start(t, "shutdown", "stopWatching")
  /\ UNCHANGED <<hvars, Config, alive, doc, lockFile, Locals, registered, Timed>>

\* ------------------------------------------------------- _withLock
\* Mutant: the lock file is written without the exclusive flag.
ExclusiveCreateWithoutX == TRUE

\* Mutant: the lock file of a process that has ended is taken over.
ExclusiveCreateOrStale == lockFile = NoLock \/ (lockFile \in Tasks /\ ~Live(lockFile))

\* fs.writeFile(lockFilePath, pid, { flag: 'wx' }) succeeds: the file did not exist.
ExclusiveCreate == lockFile = NoLock

\* Mutant: the loop runs while attempt <= maxRetries, one attempt more.
SleepAndRetryOnceMore(t) ==
  IF attempt[t] + 1 <= maxRetries
    THEN /\ attempt' = [attempt EXCEPT ![t] = attempt[t] + 1]
         /\ UNCHANGED <<pc, res, err, cache, entry, snap, probed>>
    ELSE /\ err' = [err EXCEPT ![t] = "timeout"]
         /\ AfterLocked(t, "timeout")

\* The EEXIST branch and the loop header: wait retryDelay, count the attempt,
\* and leave the loop with the timeout error once maxRetries attempts are spent.
SleepAndRetry(t) ==
  IF attempt[t] + 1 < maxRetries
    THEN /\ attempt' = [attempt EXCEPT ![t] = attempt[t] + 1]
         /\ UNCHANGED <<pc, res, err, cache, entry, snap, probed>>
    ELSE /\ err' = [err EXCEPT ![t] = "timeout"]
         /\ AfterLocked(t, "timeout")

LockAcquire(t) ==
  /\ Live(t)
  /\ pc[t] = "lock"
  /\ ExclusiveCreate
  /\ lockFile' = t
  /\ Goto(t, "read")
  /\ UNCHANGED <<hvars, Config, alive, doc, op, Locals, registered, Timed>>

LockBusy(t) ==
  /\ Live(t)
  /\ pc[t] = "lock"
  /\ ~ExclusiveCreate
  /\ SleepAndRetry(t)
  /\ UNCHANGED <<hvars, Config, alive, doc, lockFile, op, wrote, registered, Timed>>

\* Mutant: every failure of the creation is retried.
RetriesOnAny(code) == TRUE

\* The test of line 529: the creation is retried after EEXIST alone.
RetriesOn(code) == code = "EEXIST"

\* Any other failure of the creation (EACCES, ENOSPC, ...): thrown at once.
LockError(t) ==
  /\ Live(t)
  /\ pc[t] = "lock"
  /\ IF RetriesOn("EACCES")
       THEN SleepAndRetry(t)
       ELSE /\ err' = [err EXCEPT ![t] = "create"]
            /\ AfterLocked(t, "create")
  /\ UNCHANGED <<hvars, Config, alive, doc, lockFile, op, wrote, registered, Timed>>

\* The finally block, then the catch of line 528 (which rethrows what fn threw),
\* then the caller's own try/catch.
Released(t) ==
  /\ AfterLocked(t, err[t])
  /\ registered' =
       IF op[t] = "register" /\ err[t] = "none"
         THEN [registered EXCEPT ![pidOf[t]] = entry[t]]
         ELSE registered

Unlink(t) ==
  /\ Live(t)
  /\ pc[t] = "unlink"
  /\ lockFile' = NoLock
  /\ Released(t)
  /\ UNCHANGED <<hvars, Config, alive, doc, op, err, wrote, Timed>>

\* fs.unlink fails: ignored, the lock file stays.
UnlinkFail(t) ==
  /\ Live(t)
  /\ pc[t] = "unlink"
  /\ Released(t)
  /\ UNCHANGED <<hvars, Config, alive, doc, lockFile, op, err, wrote, Timed>>

\* ------------------------------------------- the critical sections
\* Mutant: there is no finally block: what fn throws goes to the catch of
\* line 528 at once and the lock file stays.
FnThrewWithoutFinally(t, e) ==
  /\ err' = [err EXCEPT ![t] = e]
  /\ AfterLocked(t, e)

\* fn throws e inside the try of lines 517-526: the finally block runs next.
FnThrew(t, e) ==
  /\ err' = [err EXCEPT ![t] = e]
  /\ Goto(t, "unlink")
  /\ UNCHANGED <<res, attempt, cache, entry, snap, probed>>

\* Mutant: register writes a table of its own row alone.
registerFnOwnRowOnly(t, table) == [EmptyTable EXCEPT ![getWorkspaceKey(t)] = entry[t]]

\* register's fn after the read: cache[workspaceKey] = entry.
registerFn(t, table) == [table EXCEPT ![getWorkspaceKey(t)] = entry[t]]

\* deregister's fn after the read: delete cache[workspaceKey].
deregisterFn(t, table) == [table EXCEPT ![getWorkspaceKey(t)] = NoRow]

\* cleanupStaleEntries' loop: cleanedCache holds the rows whose pid runs.
cleanedCache(table) ==
  [k \in Keys |->
     IF table[k] # NoRow /\ isProcessRunning(table[k].pid) THEN table[k] ELSE NoRow]

removedCount(table) ==
  Cardinality({k \in Keys : table[k] # NoRow /\ ~isProcessRunning(table[k].pid)})

ReadOk(t) ==
  /\ Live(t)
  /\ pc[t] = "read"
  /\ CASE op[t] = "register" ->
            /\ cache' = [cache EXCEPT ![t] = registerFn(t, readCache)]
            /\ Goto(t, "write")
            /\ snap' = snap
         [] op[t] \in {"deregister", "shutdown"} ->
            /\ snap' = snap
            /\ IF readCache[getWorkspaceKey(t)] # NoRow
                 THEN /\ cache' = [cache EXCEPT ![t] = deregisterFn(t, readCache)]
                      /\ Goto(t, "write")
                 ELSE /\ cache' = [cache EXCEPT ![t] = readCache]
                      /\ Goto(t, "unlink")
         [] op[t] = "cleanupStaleEntries" ->
            /\ cache' = [cache EXCEPT ![t] = readCache]
            /\ snap' = [snap EXCEPT ![t] = readCache]
            /\ Goto(t, "probe")
  /\ UNCHANGED <<hvars, Config, alive, doc, lockFile, op, attempt, entry, err, res,
                 wrote, probed, registered, Timed>>

\* fs.readFile fails with something else than ENOENT, or JSON.parse throws.
ReadFail(t) ==
  /\ Live(t)
  /\ pc[t] = "read"
  /\ FnThrew(t, "read")
  /\ UNCHANGED <<hvars, Config, alive, doc, lockFile, op, wrote, registered, Timed>>

\* The for loop of cleanupStaleEntries: it suspends on no I/O, so it is one step.
Probe(t) ==
  /\ Live(t)
  /\ pc[t] = "probe"
  /\ probed' = [probed EXCEPT ![t] = {p \in Pids : alive[p]}]
  /\ cache' = [cache EXCEPT ![t] = cleanedCache(cache[t])]
  /\ Goto(t, IF removedCount(cache[t]) > 0 THEN "write" ELSE "unlink")
  /\ UNCHANGED <<hvars, Config, alive, doc, lockFile, op, attempt, entry, err, res,
                 wrote, snap, registered, Timed>>

\* _writeCache(cache).
writeCache(table) == File(Stringify(table))

WriteOk(t) ==
  /\ Live(t)
  /\ pc[t] = "write"
  /\ doc' = writeCache(cache[t])
  /\ wrote' = [wrote EXCEPT ![t] = TRUE]
  /\ Goto(t, "unlink")
  /\ UNCHANGED <<hvars, Config, alive, lockFile, op, attempt, cache, entry, err, res,
                 snap, probed, registered, Timed>>

WriteFail(t) ==
  /\ Live(t)
  /\ pc[t] = "write"
  /\ FnThrew(t, "write")
  /\ UNCHANGED <<hvars, Config, alive, doc, lockFile, op, wrote, registered, Timed>>

\* ------------------------------------- initialize (_ensureCacheFile)
\* fs.access succeeds: the document exists, nothing to do.
AccessOk(t) ==
  /\ Live(t)
  /\ pc[t] = "access"
  /\ doc.exists
  /\ Finish(t, "ok")
  /\ UNCHANGED <<hvars, Config, alive, doc, lockFile, op, err, wrote, registered, Timed>>

\* fs.access fails with ENOENT: _writeCache({}) is awaited next.
AccessENOENT(t) ==
  /\ Live(t)
  /\ pc[t] = "access"
  /\ ~doc.exists
  /\ Goto(t, "ensureWrite")
  /\ UNCHANGED <<hvars, Config, alive, doc, lockFile, op, Locals, registered, Timed>>

\* mkdir or fs.access fails otherwise: initialize logs and rethrows.
AccessFail(t) ==
  /\ Live(t)
  /\ pc[t] = "access"
  /\ err' = [err EXCEPT ![t] = "access"]
  /\ Finish(t, "raised")
  /\ UNCHANGED <<hvars, Config, alive, doc, lockFile, op, wrote, registered, Timed>>

\* _ensureCacheFile's write of the empty table: no lock is taken around it.
EnsureWrite(t) ==
  /\ Live(t)
  /\ pc[t] = "ensureWrite"
  /\ doc' = writeCache(EmptyTable)
  /\ wrote' = [wrote EXCEPT ![t] = TRUE]
  /\ Finish(t, "ok")
  /\ UNCHANGED <<hvars, Config, alive, lockFile, op, err, registered, Timed>>

EnsureWriteFail(t) ==
  /\ Live(t)
  /\ pc[t] = "ensureWrite"
  /\ err' = [err EXCEPT ![t] = "write"]
  /\ Finish(t, "raised")
  /\ UNCHANGED <<hvars, Config, alive, doc, lockFile, op, wrote, registered, Timed>>

\* ---------------------------------------------- getActiveWorkspaces
\* What getActiveWorkspaces returns: the table read, or {} when the read fails.
getActiveWorkspaces(readOk) == IF readOk THEN readCache ELSE EmptyTable

\* The call returns the table: cache holds the value returned.
GetRead(t) ==
  /\ Live(t)
  /\ pc[t] = "get"
  /\ \E readOk \in BOOLEAN :
       cache' = [cache EXCEPT ![t] = getActiveWorkspaces(readOk)]
  /\ Goto(t, "ret")
  /\ res' = [res EXCEPT ![t] = "ok"]
  /\ UNCHANGED <<hvars, Config, alive, doc, lockFile, op, attempt, entry, err, wrote,
                 snap, probed, registered, Timed>>

\* --------------------------------------------------------- shutdown
\* stopWatching: it returns whether or not the watcher's close fails; then
\* deregister is called.
StopWatching(t) ==
  /\ Live(t)
  /\ pc[t] = "stopWatching"
  /\ Goto(t, "lock")
  /\ registered' = [registered EXCEPT ![pidOf[t]] = NoRow]
  /\ UNCHANGED <<hvars, Config, alive, doc, lockFile, op, Locals, Timed>>

RemoveAllListeners(t) ==
  /\ Live(t)
  /\ pc[t] = "removeAllListeners"
  /\ Finish(t, "ok")
  /\ UNCHANGED <<hvars, Config, alive, doc, lockFile, op, err, wrote, registered, Timed>>

\* ------------------------------------------------------ environment
\* A hub process ends without running shutdown: its tasks stop where they
\* are, and what it wrote to disk (its row, its lock file) stays.
Crash(p) ==
  /\ alive[p]
  /\ alive' = [alive EXCEPT ![p] = FALSE]
  /\ pc' = [t \in Tasks |-> IF pidOf[t] = p THEN "dead" ELSE pc[t]]
  /\ op' = [t \in Tasks |-> IF pidOf[t] = p THEN "none" ELSE op[t]]
  /\ attempt' = [t \in Tasks |-> IF pidOf[t] = p THEN 0 ELSE attempt[t]]
  /\ cache' = [t \in Tasks |-> IF pidOf[t] = p THEN EmptyTable ELSE cache[t]]
  /\ entry' = [t \in Tasks |-> IF pidOf[t] = p THEN NoRow ELSE entry[t]]
  /\ err' = [t \in Tasks |-> IF pidOf[t] = p THEN "none" ELSE err[t]]
  /\ res' = [t \in Tasks |-> IF pidOf[t] = p THEN "none" ELSE res[t]]
  /\ wrote' = [t \in Tasks |-> IF pidOf[t] = p THEN FALSE ELSE wrote[t]]
  /\ snap' = [t \in Tasks |-> IF pidOf[t] = p THEN EmptyTable ELSE snap[t]]
  /\ probed' = [t \in Tasks |-> IF pidOf[t] = p THEN {} ELSE probed[t]]
  /\ registered' = [registered EXCEPT ![p] = NoRow]
  /\ UNCHANGED <<hvars, Config, doc, lockFile, Timed>>

\* =================================================================
\* MCPHub: the map of named server connections
\* =================================================================
HubTasks == 1..MaxHubCalls
\* The server names of a run.
Names == {"s1", "s2"}
\* Every call constructs at most one connection per name.
MaxConns == MaxHubCalls * Cardinality(Names)
ConnIds == 1..MaxConns
\* this.connections.get(name) is undefined.
NoConn == 0

\* The tables config.mcpServers can be: entries with distinct names, in the
\* order Object.entries lists them, each enabled or disabled.
ServerConfigs == [name : Names, disabled : BOOLEAN]
Configs ==
  {c \in UNION {[1..n -> ServerConfigs] : n \in 0..Cardinality(Names)} :
     \A i, j \in DOMAIN c : i # j => c[i].name # c[j].name}
Configured == {config[i].name : i \in DOMAIN config}

\* config.mcpServers?.[name] is undefined.
NoServerConfig == [name |-> "", disabled |-> FALSE]
\* config.mcpServers?.[name].
ServerConfigOf(cfg, name) ==
  IF \E i \in DOMAIN cfg : cfg[i].name = name
    THEN cfg[CHOOSE i \in DOMAIN cfg : cfg[i].name = name]
    ELSE NoServerConfig
\* serverConfig.disabled = flag, on the entry of the configuration object.
WithDisabled(cfg, name, flag) ==
  [i \in DOMAIN cfg |-> IF cfg[i].name = name THEN [cfg[i] EXCEPT !.disabled = flag] ELSE cfg[i]]

\* A connection not constructed yet.
Unborn == [name |-> "", status |-> "none", disabled |-> FALSE]
\* new MCPConnection(name, serverConfig): the connection keeps the
\* configuration it was built from.
NewConnection(serverConfig) ==
  [name |-> serverConfig.name, status |-> "created", disabled |-> serverConfig.disabled]
\* connection.getServerInfo(): the snapshot of the connection's state.
getServerInfo(c) == conns[c]

\* A hub task at rest: no call made yet.
NoCall ==
  [pc |-> "idle", op |-> "none", name |-> "", disable |-> FALSE, newConfig |-> <<>>,
   servers |-> <<>>, idx |-> 0, awaiting |-> NoConn, pending |-> {},
   res |-> "none", err |-> "none",
   made |-> {}, known |-> {}, failed |-> {}, persisted |-> FALSE,
   invoked |-> "none"]

HubUnchanged == UNCHANGED rvars

\* Call t begins: the calls are numbered in the order they begin.
HubStart(t) ==
  /\ hubCall[t].pc = "idle"
  /\ IF t = 1 THEN TRUE ELSE hubCall[t - 1].pc # "idle"

\* The call is over: its locals are gone, its result and history stay.
Return(call, outcome) ==
  [call EXCEPT !.pc = "ret", !.res = outcome, !.servers = <<>>, !.idx = 0,
               !.awaiting = NoConn, !.pending = {}]

\* The call raises error e to its caller.
Raise(call, e) == Return([call EXCEPT !.err = e], "raised")

\* connection.connect() / connection.disconnect() is called: its synchronous
\* part runs, the rest settles later.
Connecting(cs, c) == [cs EXCEPT ![c].status = "connecting"]
Disconnecting(cs, ids) ==
  [c \in ConnIds |-> IF c \in ids THEN [cs[c] EXCEPT !.status = "disconnecting"] ELSE cs[c]]

\* Mutant: the connection is constructed and connected but not put in the map.
connectionsSetSkipped(name, c) == connections

\* this.connections.set(name, connection).
connectionsSet(name, c) == [connections EXCEPT ![name] = c]

\* Lines 57-59 and 129-131: construct the connection, put it in the map under
\* its name (replacing the entry the name had), call connect and await it.
ConnectNew(t, call, cs, serverConfig) ==
  LET c == nextConn + 1 IN
  /\ nextConn' = c
  /\ connections' = connectionsSet(serverConfig.name, c)
  /\ conns' = Connecting([cs EXCEPT ![c] = NewConnection(serverConfig)], c)
  /\ connectInvoked' = connectInvoked \cup {c}
  /\ hubCall' = [hubCall EXCEPT ![t] =
                   [call EXCEPT !.pc = "connect", !.awaiting = c,
                                !.made = call.made \cup {c}]]

\* The for loop of startConfiguredServers from entry i on, up to its next
\* await: the entry's connection is made (disabled entries too), or the loop
\* is over and the call returns.
Iterate(t, call, cs, i) ==
  IF i <= Len(call.servers)
    THEN ConnectNew(t, [call EXCEPT !.idx = i], cs, call.servers[i])
    ELSE /\ hubCall' = [hubCall EXCEPT ![t] = Return(call, "ok")]
         /\ conns' = cs
         /\ UNCHANGED <<connections, nextConn, connectInvoked>>

CallStartConfiguredServers(t) ==
  /\ HubStart(t)
  /\ Iterate(t, [hubCall[t] EXCEPT !.op = "startConfiguredServers", !.servers = config],
             conns, 1)
  /\ UNCHANGED <<config, disconnectInvoked>>
  /\ HubUnchanged

CallConnectServer(t) ==
  /\ HubStart(t)
  /\ \E serverConfig \in ServerConfigs :
       ConnectNew(t, [hubCall[t] EXCEPT !.op = "connectServer", !.name = serverConfig.name],
                  conns, serverConfig)
  /\ UNCHANGED <<config, disconnectInvoked>>
  /\ HubUnchanged

\* Mutant: the loop of startConfiguredServers has no try/catch.
CatchesConnectErrorNowhere(method) == FALSE

\* The try/catch around the loop body of startConfiguredServers (lines 49-71);
\* connectServer has none.  updateConfig runs startConfiguredServers.
CatchesConnectError(method) == method \in {"startConfiguredServers", "updateConfig"}

\* The awaited connect has settled: startConfiguredServers goes on with the
\* next entry whether it failed or not; connectServer returns the server's
\* info, or raises what connect raised.
AfterConnect(t, failed) ==
  LET c == hubCall[t].awaiting
      cs == [conns EXCEPT ![c].status = IF failed THEN "error" ELSE "connected"]
      call == IF failed THEN [hubCall[t] EXCEPT !.failed = @ \cup {c}] ELSE hubCall[t]
  IN IF call.op \in {"startConfiguredServers", "updateConfig"}
          /\ (~failed \/ CatchesConnectError(call.op))
       THEN Iterate(t, call, cs, call.idx + 1)
       ELSE /\ hubCall' = [hubCall EXCEPT ![t] =
                             IF failed /\ ~CatchesConnectError(call.op)
                               THEN Raise(call, "connect") ELSE Return(call, "ok")]
            /\ conns' = cs
            /\ UNCHANGED <<connections, nextConn, connectInvoked>>

ConnectOk(t) ==
  /\ hubCall[t].pc = "connect"
  /\ AfterConnect(t, FALSE)
  /\ UNCHANGED <<config, disconnectInvoked>>
  /\ HubUnchanged

ConnectFail(t) ==
  /\ hubCall[t].pc = "connect"
  /\ AfterConnect(t, TRUE)
  /\ UNCHANGED <<config, disconnectInvoked>>
  /\ HubUnchanged

\* disconnectServer(name) up to its await: nothing to do for a name without
\* an entry; otherwise disconnect is called on the entry's connection.
CallDisconnectServer(t) ==
  /\ HubStart(t)
  /\ \E name \in Names :
       LET c == connections[name]
           call == [hubCall[t] EXCEPT !.op = "disconnectServer", !.name = name]
       IN IF c = NoConn
            THEN /\ hubCall' = [hubCall EXCEPT ![t] = Return(call, "ok")]
                 /\ UNCHANGED <<conns, disconnectInvoked>>
            ELSE /\ hubCall' = [hubCall EXCEPT ![t] =
                                  [call EXCEPT !.pc = "disconnect", !.pending = {c},
                                               !.known = {c}]]
                 /\ conns' = Disconnecting(conns, {c})
                 /\ disconnectInvoked' = disconnectInvoked \cup {c}
  /\ UNCHANGED <<config, connections, nextConn, connectInvoked>>
  /\ HubUnchanged

\* disconnectAll up to its await: the map of line 165 calls disconnectServer
\* for every key, and each of these calls runs up to its own await, so
\* disconnect has been called on every connection of the map.
CallDisconnectAll(t) ==
  /\ HubStart(t)
  /\ LET ids == {connections[n] : n \in {x \in Names : connections[x] # NoConn}}
     IN /\ hubCall' = [hubCall EXCEPT ![t] =
                         [hubCall[t] EXCEPT !.op = "disconnectAll", !.pc = "allSettled",
                                            !.pending = ids, !.known = ids]]
        /\ conns' = Disconnecting(conns, ids)
        /\ disconnectInvoked' = disconnectInvoked \cup ids
  /\ UNCHANGED <<config, connections, nextConn, connectInvoked>>
  /\ HubUnchanged

\* Mutant: disconnectServer has no try/catch around the disconnect.
CatchesDisconnectErrorNowhere(method) == FALSE

\* The try/catch of disconnectServer (lines 138-151), which disconnectAll
\* goes through for each of its branches.
CatchesDisconnectError(method) == method \in {"disconnectServer", "disconnectAll"}

\* One awaited disconnect has settled.  disconnectServer catches its failure
\* and returns; within disconnectAll the other branches go on.
AfterDisconnect(t, c, failed) ==
  LET call == [hubCall[t] EXCEPT !.pending = @ \ {c},
                                 !.failed = IF failed THEN @ \cup {c} ELSE @]
  IN /\ conns' = [conns EXCEPT ![c].status = IF failed THEN "error" ELSE "disconnected"]
     /\ hubCall' = [hubCall EXCEPT ![t] =
                      IF call.op = "disconnectServer"
                        THEN IF failed /\ ~CatchesDisconnectError(call.op)
                               THEN Raise(call, "disconnect") ELSE Return(call, "ok")
                        ELSE call]

DisconnectOk(t) ==
  /\ hubCall[t].pc \in {"disconnect", "allSettled"}
  /\ \E c \in hubCall[t].pending : AfterDisconnect(t, c, FALSE)
  /\ UNCHANGED <<config, connections, nextConn, connectInvoked, disconnectInvoked>>
  /\ HubUnchanged

DisconnectFail(t) ==
  /\ hubCall[t].pc \in {"disconnect", "allSettled"}
  /\ \E c \in hubCall[t].pending : AfterDisconnect(t, c, TRUE)
  /\ UNCHANGED <<config, connections, nextConn, connectInvoked, disconnectInvoked>>
  /\ HubUnchanged

\* Mutant: the map is left as it is.
connectionsKept == connections

\* this.connections.clear().
connectionsCleared == [n \in Names |-> NoConn]

\* Promise.allSettled has resolved, every branch having settled: the map is
\* cleared and disconnectAll returns.
ClearConnections(t) ==
  /\ hubCall[t].pc = "allSettled"
  /\ hubCall[t].pending = {}
  /\ connections' = connectionsCleared
  /\ hubCall' = [hubCall EXCEPT ![t] = Return(hubCall[t], "ok")]
  /\ UNCHANGED <<config, nextConn, conns, connectInvoked, disconnectInvoked>>
  /\ HubUnchanged

\* ------------------------------------------- startServer, stopServer
\* connection.start() / connection.stop(disable) is called.
Starting(cs, c) == [cs EXCEPT ![c].status = "connecting"]
Stopping(cs, c) == [cs EXCEPT ![c].status = "disconnecting"]

\* Lines 93 and 114: start or stop is called on the connection and awaited.
Issue(call, what, c) == [call EXCEPT !.pc = what, !.awaiting = c, !.invoked = what]

\* startServer(name) up to its first await.  Both lookups come first; a
\* disabled entry is then enabled in the configuration object, which
\* configManager.updateConfig is called to persist.
CallStartServer(t) ==
  /\ HubStart(t)
  /\ \E name \in Names :
       LET call == [hubCall[t] EXCEPT !.op = "startServer", !.name = name]
           serverConfig == ServerConfigOf(config, name)
           c == connections[name]
       IN IF serverConfig = NoServerConfig
            THEN /\ hubCall' = [hubCall EXCEPT ![t] = Raise(call, "ServerNotFound")]
                 /\ UNCHANGED <<config, conns>>
            ELSE IF c = NoConn
              THEN /\ hubCall' = [hubCall EXCEPT ![t] = Raise(call, "ConnectionNotFound")]
                   /\ UNCHANGED <<config, conns>>
              ELSE IF serverConfig.disabled
                THEN /\ config' = WithDisabled(config, name, FALSE)
                     /\ hubCall' = [hubCall EXCEPT ![t] =
                                      [call EXCEPT !.pc = "persist", !.awaiting = c]]
                     /\ UNCHANGED conns
                ELSE /\ hubCall' = [hubCall EXCEPT ![t] = Issue(call, "start", c)]
                     /\ conns' = Starting(conns, c)
                     /\ UNCHANGED config
  /\ UNCHANGED <<connections, nextConn, connectInvoked, disconnectInvoked>>
  /\ HubUnchanged

\* Lines 109-114 of stopServer: the connection is looked up, and stopped.
StopConnection(t, call) ==
  LET c == connections[call.name]
  IN IF c = NoConn
       THEN /\ hubCall' = [hubCall EXCEPT ![t] = Raise(call, "ConnectionNotFound")]
            /\ UNCHANGED conns
       ELSE /\ hubCall' = [hubCall EXCEPT ![t] = Issue(call, "stop", c)]
            /\ conns' = Stopping(conns, c)

\* stopServer(name, disable) up to its first await.  The entry is looked up;
\* with disable set it is disabled in the configuration object, which
\* configManager.updateConfig is called to persist; the connection is looked
\* up after that.
CallStopServer(t) ==
  /\ HubStart(t)
  /\ \E name \in Names, disable \in BOOLEAN :
       LET call == [hubCall[t] EXCEPT !.op = "stopServer", !.name = name,
                                      !.disable = disable]
       IN IF ServerConfigOf(config, name) = NoServerConfig
            THEN /\ hubCall' = [hubCall EXCEPT ![t] = Raise(call, "ServerNotFound")]
                 /\ UNCHANGED <<config, conns>>
            ELSE IF disable
              THEN /\ config' = WithDisabled(config, name, TRUE)
                   /\ hubCall' = [hubCall EXCEPT ![t] = [call EXCEPT !.pc = "persist"]]
                   /\ UNCHANGED conns
              ELSE /\ StopConnection(t, call)
                   /\ UNCHANGED config
  /\ UNCHANGED <<connections, nextConn, connectInvoked, disconnectInvoked>>
  /\ HubUnchanged

\* updateConfig(newConfig) up to its first await: configManager.updateConfig
\* is called with the new configuration.
CallUpdateConfig(t) ==
  /\ HubStart(t)
  /\ \E newConfig \in Configs :
       hubCall' = [hubCall EXCEPT ![t] =
                     [hubCall[t] EXCEPT !.op = "updateConfig", !.pc = "persist",
                                        !.newConfig = newConfig]]
  /\ UNCHANGED <<config, connections, nextConn, conns, connectInvoked, disconnectInvoked>>
  /\ HubUnchanged

\* configManager.updateConfig has resolved.  startServer starts the connection
\* it looked up before; stopServer looks the connection up now; updateConfig
\* runs startConfiguredServers on the configuration now in place.
PersistOk(t) ==
  /\ hubCall[t].pc = "persist"
  /\ LET call == [hubCall[t] EXCEPT !.persisted = TRUE]
     IN CASE call.op = "startServer" ->
               /\ hubCall' = [hubCall EXCEPT ![t] = Issue(call, "start", call.awaiting)]
               /\ conns' = Starting(conns, call.awaiting)
               /\ UNCHANGED <<config, connections, nextConn, connectInvoked>>
          [] call.op = "stopServer" ->
               /\ StopConnection(t, call)
               /\ UNCHANGED <<config, connections, nextConn, connectInvoked>>
          [] call.op = "updateConfig" ->
               /\ config' = call.newConfig
               /\ Iterate(t, [call EXCEPT !.servers = call.newConfig], conns, 1)
  /\ UNCHANGED disconnectInvoked
  /\ HubUnchanged

\* configManager.updateConfig has rejected: startServer and stopServer raise
\* it, updateConfig raises it wrapped.
PersistFail(t) ==
  /\ hubCall[t].pc = "persist"
  /\ hubCall' = [hubCall EXCEPT ![t] = Raise(hubCall[t], "persist")]
  /\ UNCHANGED <<config, connections, nextConn, conns, connectInvoked, disconnectInvoked>>
  /\ HubUnchanged

\* The awaited start or stop has settled: its result is returned, its failure raised.
StartStopOk(t) ==
  /\ hubCall[t].pc \in {"start", "stop"}
  /\ conns' = [conns EXCEPT ![hubCall[t].awaiting].status =
                 IF hubCall[t].pc = "start" THEN "connected"
                 ELSE IF hubCall[t].disable THEN "disabled" ELSE "disconnected"]
  /\ hubCall' = [hubCall EXCEPT ![t] = Return(hubCall[t], "ok")]
  /\ UNCHANGED <<config, connections, nextConn, connectInvoked, disconnectInvoked>>
  /\ HubUnchanged

StartStopFail(t) ==
  /\ hubCall[t].pc \in {"start", "stop"}
  /\ conns' = [conns EXCEPT ![hubCall[t].awaiting].status = "error"]
  /\ hubCall' = [hubCall EXCEPT ![t] = Raise(hubCall[t], hubCall[t].pc)]
  /\ UNCHANGED <<config, connections, nextConn, connectInvoked, disconnectInvoked>>
  /\ HubUnchanged

\* ----------------------------------------------------- status reads
\* What getServerStatus raises for a name without an entry.
NotFound == [name |-> "", status |-> "NotFound", disabled |-> FALSE]

\* getServerStatus(name).
getServerStatus(name) ==
  IF connections[name] = NoConn THEN NotFound ELSE getServerInfo(connections[name])

\* getAllServerStatuses(): the info of every connection of the map.
getAllServerStatuses ==
  {getServerInfo(connections[n]) : n \in {x \in Names : connections[x] # NoConn}}

\* The hub as its constructor leaves it, with configuration c loaded.
HubConstructed(c) ==
  /\ config = c
  /\ connections = [n \in Names |-> NoConn]
  /\ nextConn = 0
  /\ conns = [c2 \in ConnIds |-> Unborn]
  /\ connectInvoked = {}
  /\ disconnectInvoked = {}
  /\ hubCall = [t \in HubTasks |-> NoCall]

\* ---------------------------------------------------- specification
\* The layouts of tasks over processes and of processes over workspaces, up
\* to renaming: task 1 runs in process 1, which serves "/w1"; the hub that is
\* gone served "/w2".
Layouts ==
  {l \in [pidOf : [Tasks -> Pids \ {Gone}], cwd : [Pids -> Keys]] :
     /\ l.pidOf[1] = 1
     /\ \A t \in Tasks : l.pidOf[t] = 1 \/ \E u \in 1..(t - 1) : l.pidOf[u] = l.pidOf[t] - 1
     /\ l.cwd[1] = "/w1"
     /\ l.cwd[Gone] = "/w2"
     /\ \A p \in Pids \ {Gone} : (\A t \in Tasks : l.pidOf[t] # p) => l.cwd[p] = "/w1"}

\* What the earlier hub left in its row.
GoneRow(l) == [key |-> l.cwd[Gone], pid |-> Gone, port |-> Port(Gone), startTime |-> 0]

TaskInit ==
  /\ alive = [p \in Pids |-> p # Gone]
  /\ pc = [t \in Tasks |-> "idle"]
  /\ op = [t \in Tasks |-> "none"]
  /\ attempt = [t \in Tasks |-> 0]
  /\ cache = [t \in Tasks |-> EmptyTable]
  /\ entry = [t \in Tasks |-> NoRow]
  /\ err = [t \in Tasks |-> "none"]
  /\ res = [t \in Tasks |-> "none"]
  /\ wrote = [t \in Tasks |-> FALSE]
  /\ snap = [t \in Tasks |-> EmptyTable]
  /\ probed = [t \in Tasks |-> {}]
  /\ registered = [p \in Pids |-> NoRow]

\* No hub is registering: there is no lock file, and the document is missing
\* (no hub has run yet), empty, or holds the row of the hub that is gone.
Init ==
  /\ \E l \in Layouts :
       /\ pidOf = l.pidOf
       /\ cwd = l.cwd
       /\ doc \in {NoFile, File({}), File({GoneRow(l)})}
  /\ TaskInit
  /\ lockFile = NoLock
  /\ now = 0
  /\ heldUntil = 0
  /\ HubConstructed(<<>>)

Locked(t) ==
  \/ LockAcquire(t)
  \/ LockBusy(t)
  \/ LockError(t)
  \/ ReadOk(t)
  \/ ReadFail(t)
  \/ Probe(t)
  \/ WriteOk(t)
  \/ WriteFail(t)
  \/ Unlink(t)
  \/ UnlinkFail(t)

TaskStep(t) ==
  \/ CallInitialize(t)
  \/ CallRegister(t)
  \/ CallDeregister(t)
  \/ CallCleanupStaleEntries(t)
  \/ CallGetActiveWorkspaces(t)
  \/ CallShutdown(t)
  \/ Locked(t)
  \/ AccessOk(t)
  \/ AccessENOENT(t)
  \/ AccessFail(t)
  \/ EnsureWrite(t)
  \/ EnsureWriteFail(t)
  \/ GetRead(t)
  \/ StopWatching(t)
  \/ RemoveAllListeners(t)

Next ==
  \/ \E t \in Tasks : TaskStep(t)
  \/ \E p \in Pids : Crash(p)

Spec == Init /\ [][Next]_vars

\* ------------------------------------------ two registers, side by side
\* Two processes of different workspaces, each calling register once, and
\* no I/O error: the interleavings of their lock attempts, reads and writes.
PairTasks == {1, 2}

PairInit ==
  /\ pidOf = [t \in Tasks |-> t]
  /\ cwd = [p \in Pids |-> IF p = 1 THEN "/w1" ELSE "/w2"]
  /\ doc \in {NoFile, File({}),
              File({[key |-> "/w2", pid |-> Gone, port |-> Port(Gone), startTime |-> 0]})}
  /\ TaskInit
  /\ lockFile = NoLock
  /\ now = 0
  /\ heldUntil = 0
  /\ HubConstructed(<<>>)

PairNext ==
  \E t \in PairTasks :
    \/ CallRegister(t)
    \/ LockAcquire(t)
    \/ LockBusy(t)
    \/ ReadOk(t)
    \/ WriteOk(t)
    \/ Unlink(t)

SpecPair == PairInit /\ [][PairNext]_vars

\* ------------------------------------------------- _withLock in time
\* One caller, and a lock file that somebody else created before the
\* caller's first attempt and removes heldUntil time units after it.  An
\* attempt takes no time; the wait between two attempts takes retryDelay.
Caller == 1

TimedInit ==
  /\ pidOf = [t \in Tasks |-> 1]
  /\ cwd = [p \in Pids |-> IF p = Gone THEN "/w2" ELSE "/w1"]
  /\ doc \in {File({}),
              File({[key |-> "/w1", pid |-> Gone, port |-> Port(Gone), startTime |-> 0]})}
  /\ TaskInit
  /\ lockFile = External
  /\ now = 0
  /\ heldUntil \in 1..MaxHold
  /\ HubConstructed(<<>>)

\* The lock file as the next attempt finds it, at time `time`.
LockFileAt(time) ==
  IF lockFile = External /\ time >= heldUntil THEN NoLock ELSE lockFile

\* The EEXIST branch with its setTimeout(resolve, retryDelay).
LockBusyTimed(t) ==
  /\ Live(t)
  /\ pc[t] = "lock"
  /\ ~ExclusiveCreate
  /\ SleepAndRetry(t)
  /\ now' = now + retryDelay
  /\ lockFile' = LockFileAt(now')
  /\ UNCHANGED <<hvars, Config, alive, doc, op, wrote, registered, heldUntil>>

TimedNext ==
  \/ (now = 0 /\ lockFile = External /\ CallRegister(Caller))
  \/ (now = 0 /\ lockFile = External /\ CallDeregister(Caller))
  \/ (now = 0 /\ lockFile = External /\ CallCleanupStaleEntries(Caller))
  \/ LockAcquire(Caller)
  \/ LockBusyTimed(Caller)
  \/ ReadOk(Caller)
  \/ Probe(Caller)
  \/ WriteOk(Caller)
  \/ Unlink(Caller)

SpecTimed == TimedInit /\ [][TimedNext]_vars

\* ------------------------------------------------------ the hub alone
\* One hub process and the calls of its connection methods; the registry is
\* left as no hub has touched it.
RegistryUntouched ==
  /\ pidOf = [t \in Tasks |-> 1]
  /\ cwd = [p \in Pids |-> IF p = Gone THEN "/w2" ELSE "/w1"]
  /\ doc = NoFile
  /\ TaskInit
  /\ lockFile = NoLock
  /\ now = 0
  /\ heldUntil = 0

HubInit ==
  /\ RegistryUntouched
  /\ \E c \in Configs : HubConstructed(c)

HubStep(t) ==
  \/ CallStartConfiguredServers(t)
  \/ CallConnectServer(t)
  \/ CallDisconnectServer(t)
  \/ CallDisconnectAll(t)
  \/ ConnectOk(t)
  \/ ConnectFail(t)
  \/ DisconnectOk(t)
  \/ DisconnectFail(t)
  \/ ClearConnections(t)
  \/ CallStartServer(t)
  \/ CallStopServer(t)
  \/ CallUpdateConfig(t)
  \/ PersistOk(t)
  \/ PersistFail(t)
  \/ StartStopOk(t)
  \/ StartStopFail(t)

HubNext == \E t \in HubTasks : HubStep(t)

SpecHub == HubInit /\ [][HubNext]_vars

\* startConfiguredServers alone, called once (initialize) or again
\* (updateConfig), the calls one after the other or overlapping.
StartNext ==
  \E t \in HubTasks :
    \/ CallStartConfiguredServers(t)
    \/ ConnectOk(t)
    \/ ConnectFail(t)

SpecStart == HubInit /\ [][StartNext]_vars

\* The handler of the configChanged event (lines 24-26) alone: each detected
\* change calls updateConfig with the new configuration, and the emitter does
\* not wait for the handler of one change before it calls the next.
ReconcileNext ==
  \E t \in HubTasks :
    \/ CallUpdateConfig(t)
    \/ PersistOk(t)
    \/ PersistFail(t)
    \/ ConnectOk(t)
    \/ ConnectFail(t)

SpecReconcile == HubInit /\ [][ReconcileNext]_vars

\* =================================================================
\* The claims
\* =================================================================
\* The entry call t registers.
EntryOf(t) == [pid |-> pidOf[t], port |-> Port(pidOf[t]), startTime |-> Now(t)]

Returned(t) == pc[t] = "ret"
ReturnedOk(t) == pc[t] = "ret" /\ res[t] = "ok"

\* Between the creation of the lock file and its removal by the same call.
InCriticalSection(t) == pc[t] \in {"read", "probe", "write", "unlink"}

\* ---- C1 (as claimed): two processes of different workspaces run register
\* concurrently; under every interleaving of their lock attempts, reads and
\* writes, once both calls are over the document holds both workspace keys,
\* each with the pid and port its own process registered.
C1_BothRowsAfterBothCalls ==
  (Returned(1) /\ Returned(2)) =>
    \A t \in PairTasks : readCache[getWorkspaceKey(t)] = EntryOf(t)

\* ---- C1 (amended): the same, for the interleavings in which both calls
\* return normally.  A call that finds the lock file at each of its
\* maxRetries attempts raises, and its row is not in the document.
C1_BothRowsAfterBothSucceed ==
  (ReturnedOk(1) /\ ReturnedOk(2)) =>
    \A t \in PairTasks : readCache[getWorkspaceKey(t)] = EntryOf(t)

\* Both registers have returned normally, and both rows are in the document.
C1_Witness ==
  /\ ReturnedOk(1) /\ ReturnedOk(2)
  /\ wrote[1] /\ wrote[2]
  /\ \A t \in PairTasks : readCache[getWorkspaceKey(t)] = EntryOf(t)

\* ---- C2: mutual exclusion of the lock.  At most one call is between its
\* creation of the lock file and its removal of it, and that call is the one
\* the lock file belongs to: no two critical sections overlap.
C2_MutualExclusion ==
  \A t \in Tasks :
    InCriticalSection(t) =>
      /\ lockFile = t
      /\ \A u \in Tasks \ {t} : ~InCriticalSection(u)

\* One call is in its critical section while another has found the lock
\* file and is retrying.
C2_Witness ==
  \E t, u \in Tasks :
    /\ t # u
    /\ pc[t] = "write"
    /\ pc[u] = "lock" /\ attempt[u] > 0

\* ---- C5 (as claimed): with 10 attempts 50 time units apart, a caller that
\* finds the lock file enters its critical section whenever the file is held
\* for less than 10 * 50 = 500 time units from its first attempt, and fails
\* with the timeout error whenever it is held longer.
C5_Budget == maxRetries * retryDelay

C5_SucceedsBelowBudget ==
  /\ (err[Caller] = "timeout" => ~(heldUntil < C5_Budget))
  /\ (wrote[Caller] \/ InCriticalSection(Caller) => ~(heldUntil > C5_Budget))

\* ---- C5 (amended): the last of the 10 attempts is made 9 * 50 = 450 time
\* units after the first.  The caller enters its critical section exactly
\* when the lock file is held for at most 450 time units, at the first
\* attempt made after the file is removed; held longer, the caller fails
\* with the timeout error at 500 time units.  Until then it has a next step.
C5_LastAttempt == (maxRetries - 1) * retryDelay

C5_SucceedsUntilLastAttempt ==
  /\ (err[Caller] = "timeout" =>
        heldUntil > C5_LastAttempt /\ now = C5_Budget /\ ~wrote[Caller])
  /\ (InCriticalSection(Caller) =>
        /\ heldUntil <= C5_LastAttempt
        /\ now >= heldUntil /\ now < heldUntil + retryDelay)
  /\ (pc[Caller] = "lock" =>
        /\ attempt[Caller] * retryDelay = now
        /\ ENABLED (LockAcquire(Caller) \/ LockBusyTimed(Caller)))

\* The lock file was held for 450 time units and the caller is in its
\* critical section, entered at its tenth attempt.
C5_Witness ==
  /\ heldUntil = C5_LastAttempt
  /\ now = C5_LastAttempt
  /\ pc[Caller] = "read"

\* The key of row r has no row after the step.
RowRemoved(r) == ~(doc'.exists /\ \E x \in doc'.rows : x.key = r.key)

\* Call t writes the document in this step, holding the lock file.
LockedWrite(t) == lockFile = t /\ pc[t] = "write" /\ pc'[t] = "unlink" /\ doc' # doc

\* Call t writes the document in this step: as the holder of the lock file,
\* or from _ensureCacheFile.
Writes(t) ==
  /\ doc' # doc
  /\ \/ pc[t] = "write" /\ pc'[t] = "unlink"
     \/ pc[t] = "ensureWrite" /\ pc'[t] = "ret"

\* ---- C3 (as claimed): every write of the document, by initialize too, is
\* the write of what the writer read while it holds the lock file, so that no
\* write removes the row of another workspace whose process runs.
C3_NoWriteDropsAnotherWorkspacesRow ==
  [][\A t \in Tasks : \A r \in doc.rows :
       (Writes(t) /\ r.key # getWorkspaceKey(t) /\ alive[r.pid]) =>
         ~RowRemoved(r)]_vars

\* ---- C4 (as claimed), for the writes made under the lock and the rows of
\* running processes: such a row is removed only by deregister run by the
\* process whose pid the row records, also when two hubs were started in the
\* same workspace directory.
C4_RunningHubsRowRemovedByOwnerOnly ==
  [][\A r \in doc.rows : \A t \in Tasks :
       (alive[r.pid] /\ LockedWrite(t) /\ RowRemoved(r)) =>
         (LockedMethod(t) = "deregister" /\ pidOf[t] = r.pid)]_vars

\* ---- C6: cleanupStaleEntries, once it holds the lock.  When it writes,
\* the document it leaves holds exactly the rows of the table it read whose
\* pid was running when probed, each unchanged, and some row it read was not
\* running; when every row it read was running it goes on without writing.
C6_RowsKept(t) ==
  [k \in Keys |->
     IF snap[t][k] # NoRow /\ snap[t][k].pid \in probed[t] THEN snap[t][k] ELSE NoRow]

C6_CleanupStep(t) ==
  /\ (pc[t] = "write" /\ pc'[t] = "unlink" /\ err'[t] = "none") =>
        /\ doc'.exists
        /\ Parse(doc'.rows) = C6_RowsKept(t)
        /\ \E k \in Keys : snap[t][k] # NoRow /\ snap[t][k].pid \notin probed[t]
  /\ (pc[t] = "probe" /\ pc'[t] = "unlink") =>
        /\ \A k \in Keys : snap[t][k] # NoRow => alive[snap[t][k].pid]
        /\ doc' = doc
  /\ (pc[t] = "probe" /\ pc'[t] = "write") =>
        \E k \in Keys : snap[t][k] # NoRow /\ ~alive[snap[t][k].pid]
  /\ (pc[t] = "unlink" /\ pc'[t] \in {"ret", "removeAllListeners"}) => doc' = doc

SharesWorkspace(p) ==
  \E t \in Tasks : pidOf[t] # p /\ cwd[pidOf[t]] = cwd[p]

Quiet(p) ==
  \A t \in Tasks :
    pidOf[t] = p =>
      /\ pc[t] \in {"idle", "ret"}
      /\ op[t] \in {"none", "register", "getActiveWorkspaces"}

C7_RegisteredRowIsRead ==
  \A p \in Pids :
    (registered[p] # NoRow /\ ~SharesWorkspace(p) /\ Quiet(p)) =>
      getActiveWorkspaces(TRUE)[cwd[p]] = registered[p]

\* ---- C8: deregister never raises, whatever fails in it, and shutdown runs
\* to its end: a deregister or shutdown call that is over has returned
\* normally, one that is not over has a next step, and a deregister that did
\* not get the lock file has not written the document.
C8_DeregisterNeverRaises ==
  \A t \in Tasks :
    op[t] \in {"deregister", "shutdown"} =>
      /\ res[t] # "raised"
      /\ (Returned(t) => res[t] = "ok")
      /\ (err[t] \in {"timeout", "create"} => ~wrote[t])
      /\ ((Live(t) /\ ~Returned(t)) => ENABLED TaskStep(t))

\* A shutdown has run to its end although its deregister spent its ten
\* attempts on a lock file held by another call; the caller's row is still
\* in the document.
C8_Witness ==
  \E t \in Tasks :
    /\ op[t] = "shutdown" /\ ReturnedOk(t)
    /\ err[t] = "timeout" /\ ~wrote[t]
    /\ readCache[getWorkspaceKey(t)] # NoRow
    /\ readCache[getWorkspaceKey(t)].pid = pidOf[t]

\* The names that have an entry in the connection map.
MapKeys == {n \in Names : connections[n] # NoConn}

\* ---- C9: startConfiguredServers, for every configuration of N servers and
\* every subset of them whose connect fails.  The call never raises and, as
\* long as it is not over, goes on as soon as the awaited connect settles;
\* when it is over it has returned normally, it has constructed one
\* connection for each of the N configured names and called connect on it,
\* and the map has an entry for exactly the configured names, so that
\* getAllServerStatuses reports N entries.
C9_StartConfiguredServersIsolatesFailures ==
  \A t \in HubTasks :
    hubCall[t].op = "startConfiguredServers" =>
      /\ hubCall[t].res # "raised"
      /\ hubCall[t].pc # "ret" => ENABLED (ConnectOk(t) \/ ConnectFail(t))
      /\ hubCall[t].pc = "ret" =>
           /\ hubCall[t].res = "ok"
           /\ Cardinality(hubCall[t].made) = Len(config)
           /\ \A n \in Configured :
                \E c \in hubCall[t].made : conns[c].name = n /\ c \in connectInvoked
           /\ MapKeys = Configured
           /\ \A n \in MapKeys : connections[n] \in connectInvoked
           /\ Cardinality(getAllServerStatuses) = Len(config)

\* startConfiguredServers has returned for a configuration of two servers
\* whose connects both failed, and the map has both entries.
C9_Witness ==
  \E t \in HubTasks :
    /\ hubCall[t].op = "startConfiguredServers" /\ hubCall[t].pc = "ret"
    /\ Len(config) = 2
    /\ hubCall[t].failed = hubCall[t].made
    /\ Cardinality(hubCall[t].made) = 2
    /\ Cardinality(getAllServerStatuses) = 2

\* ---- C10: disconnectAll, for every subset of the connections whose
\* disconnect fails.  When it is called, disconnect is called on every
\* connection the map holds at that moment; it never raises; and the step by
\* which it returns leaves the map empty.
C10_DisconnectAllStep(t) ==
  /\ (hubCall[t].pc = "idle" /\ hubCall'[t].op = "disconnectAll") =>
       /\ hubCall'[t].known = {connections[n] : n \in MapKeys}
       /\ hubCall'[t].known \subseteq disconnectInvoked'
  /\ hubCall'[t].op = "disconnectAll" => hubCall'[t].res # "raised"
  /\ (hubCall[t].op = "disconnectAll" /\ hubCall[t].pc # "ret" /\ hubCall'[t].pc = "ret") =>
       /\ hubCall'[t].res = "ok"
       /\ hubCall[t].pending = {}
       /\ hubCall[t].known \subseteq disconnectInvoked
       /\ \A n \in Names : connections'[n] = NoConn

C10_DisconnectAllClearsTheMap ==
  [][\A t \in HubTasks : C10_DisconnectAllStep(t)]_vars

\* disconnectAll has returned, both disconnects it called having failed, and
\* the map is empty.
C10_Witness ==
  \E t \in HubTasks :
    /\ hubCall[t].op = "disconnectAll" /\ hubCall[t].pc = "ret" /\ hubCall[t].res = "ok"
    /\ Cardinality(hubCall[t].known) = 2
    /\ hubCall[t].failed = hubCall[t].known
    /\ MapKeys = {}

\* The names a start has been attempted for: those a connection was
\* constructed and connect called for, by startConfiguredServers or connectServer.
Attempted == {conns[c].name : c \in 1..nextConn}
\* The configured names whose entry is enabled.
EnabledConfigured == {n \in Configured : ~ServerConfigOf(config, n).disabled}
\* Some disconnectAll has cleared the map.
Cleared == \E t \in HubTasks : hubCall[t].op = "disconnectAll" /\ hubCall[t].pc = "ret"

\* ---- C11 (as claimed): in every reachable state, after any sequence of
\* the hub's calls, the key set of the map contains every enabled configured
\* name a start has been attempted for.
C11_MapHoldsAttemptedServers ==
  (EnabledConfigured \cap Attempted) \subseteq MapKeys

\* ---- C11 (amended): the same, in every reachable state in which no
\* disconnectAll has cleared the map: failing connects, starts, stops and
\* disconnects, and changes of the configuration, leave the entries in place.
C11_MapHoldsAttemptedServersUntilCleared ==
  ~Cleared => (EnabledConfigured \cap Attempted) \subseteq MapKeys

\* The connect of an enabled configured server has failed, and its entry is
\* in the map with the error status.
C11_Witness ==
  /\ ~Cleared
  /\ \E n \in EnabledConfigured :
       /\ n \in Attempted /\ n \in MapKeys
       /\ getServerStatus(n).status = "error"
       /\ connections[n] \in UNION {hubCall[t].failed : t \in HubTasks}

\* ---- C12 (as claimed): when connectServer is called for a name that has
\* an entry, the previous connection stays the map's entry for that name
\* while the new connection's connect is awaited: the step that calls connect
\* does not replace it.
C12_PreviousHandleStaysUntilLive ==
  [][\A t \in HubTasks :
       (/\ hubCall[t].pc = "idle"
        /\ hubCall'[t].op = "connectServer"
        /\ hubCall'[t].pc = "connect"
        /\ connections[hubCall'[t].name] # NoConn) =>
         connections'[hubCall'[t].name] = connections[hubCall'[t].name]]_vars

\* ---- C13: disconnectServer never raises and never changes the map.  Every
\* step of a disconnectServer call leaves the map as it is; for a name
\* without an entry the call returns at once and calls no disconnect; the
\* call returns normally whether the disconnect succeeds or fails, and the
\* name it returned for still has its entry, so getServerStatus reports a
\* status for it.
C13_DisconnectServerStep(t) ==
  LET n == hubCall'[t].name IN
  /\ connections' = connections
  /\ hubCall'[t].res # "raised"
  /\ hubCall'[t].pc = "ret" => hubCall'[t].res = "ok"
  /\ (hubCall[t].pc = "idle" /\ connections[n] = NoConn) =>
       /\ hubCall'[t].pc = "ret"
       /\ conns' = conns
       /\ disconnectInvoked' = disconnectInvoked
  /\ (hubCall[t].pc = "idle" /\ connections[n] # NoConn) =>
       /\ hubCall'[t].pc = "disconnect"
       /\ connections[n] \in disconnectInvoked'
  /\ (hubCall'[t].pc = "ret" /\ connections[n] # NoConn) =>
       /\ connections'[n] = connections[n]
       /\ conns'[connections'[n]] # NotFound

C13_DisconnectServerKeepsTheMap ==
  [][\A t \in HubTasks :
       (hubCall'[t].op = "disconnectServer" /\ hubCall'[t] # hubCall[t]) =>
         C13_DisconnectServerStep(t)]_vars

\* disconnectServer has returned normally after the disconnect it called
\* failed; the entry is in the map and getServerStatus reports its status.
C13_Witness ==
  \E t \in HubTasks :
    /\ hubCall[t].op = "disconnectServer" /\ hubCall[t].pc = "ret" /\ hubCall[t].res = "ok"
    /\ connections[hubCall[t].name] \in hubCall[t].failed
    /\ getServerStatus(hubCall[t].name) # NotFound
    /\ getServerStatus(hubCall[t].name).status = "error"

\* ---- C14 (as claimed): the members of startConfiguredServers run
\* concurrently.  A connect that never settles is an await the call stays
\* at for ever, so the claim is that whenever the call is suspended at the
\* connect of one server, connect has been called for every server of the
\* configuration it runs on.
C14_ConnectInvokedForAllWhileOneIsAwaited ==
  \A t \in HubTasks :
    (hubCall[t].op = "startConfiguredServers" /\ hubCall[t].pc = "connect") =>
      \A i \in 1..Len(hubCall[t].servers) :
        \E c \in hubCall[t].made :
          conns[c].name = hubCall[t].servers[i].name /\ c \in connectInvoked

\* ---- C15: a _withLock call that created the lock file leaves its critical
\* section only through the finally block, whether fn returned or threw:
\* the lock file is its own until then and is gone after the step, unless
\* the removal itself failed; what fn threw is then raised to the method
\* that called _withLock, which register raises to its own caller, and
\* nothing is raised when fn returned.
C15_LeavesThroughFinally(t) ==
  /\ pc[t] = "unlink"
  /\ lockFile = t
  /\ lockFile' = NoLock \/ UnlinkFail(t)
  /\ err'[t] = err[t]
  /\ (err[t] # "none" /\ LockedMethod(t) = "register") => res'[t] = "raised"
  /\ err[t] = "none" => res'[t] # "raised"

C15_LockFileRemovedWhenCallFinishes ==
  [][\A t \in Tasks :
       (InCriticalSection(t) /\ pc'[t] \notin {"read", "probe", "write", "unlink", "dead"}) =>
         C15_LeavesThroughFinally(t)]_vars

\* A register whose critical section threw has raised to its caller, and
\* the lock file is gone.
C15_Witness ==
  \E t \in Tasks :
    /\ op[t] = "register" /\ Returned(t) /\ res[t] = "raised"
    /\ err[t] \in {"read", "write"}
    /\ lockFile = NoLock

\* The process that created the lock file has ended without removing it.
Wedged == lockFile \in Tasks /\ pc[lockFile] = "dead"

\* ---- C16: once the holder of the lock file has ended, the registry is
\* wedged.  No call removes the lock file; every call that leaves its lock
\* attempts does so without entering the critical section, with the
\* lock-acquisition error, and a call that leaves them with the timeout has
\* spent its ten attempts; register raises it, deregister and
\* cleanupStaleEntries return normally without having written; and no call
\* holding the lock writes the document.
C16_CallGivesUp(t) ==
  /\ pc'[t] \in {"ret", "removeAllListeners"}
  /\ err'[t] \in {"timeout", "create"}
  /\ err'[t] = "timeout" => attempt[t] = maxRetries - 1
  /\ LockedMethod(t) = "register" => res'[t] = "raised"
  /\ LockedMethod(t) # "register" => res'[t] # "raised"
  /\ wrote'[t] = wrote[t]
  /\ doc' = doc

C16_WedgedByDeadHolder ==
  [][Wedged =>
       /\ lockFile' = lockFile
       /\ \A t \in Tasks :
            /\ (pc[t] = "lock" /\ pc'[t] \notin {"lock", "dead"}) => C16_CallGivesUp(t)
            /\ ~LockedWrite(t)
            /\ pc'[t] \in {"read", "probe", "write", "unlink"} => pc[t] = "dead"]_vars

\* The holder of the lock file has ended, and a register of another process
\* has raised the timeout after its ten attempts.
C16_Witness ==
  /\ Wedged
  /\ \E t \in Tasks :
       /\ op[t] = "register" /\ Returned(t) /\ res[t] = "raised"
       /\ err[t] = "timeout"
       /\ pidOf[t] # pidOf[lockFile]

\* Call t, at a lock attempt, takes a step that does not create the lock file.
C17_CreationFailed(t) ==
  /\ pc[t] = "lock"
  /\ pc'[t] \notin {"read", "dead"}
  /\ <<pc'[t], attempt'[t]>> # <<pc[t], attempt[t]>>

\* ---- C17: a creation of the lock file that fails although the file does
\* not exist (the failure is not 'file already exists') is raised on that
\* attempt: the call makes no further attempt.  Whenever _withLock gives up,
\* for that reason or with its attempts spent, the critical section has not
\* run, the document is as it was, and the lock file, another call's if
\* there is one, is as it was.
C17_LockStep(t) ==
  /\ (C17_CreationFailed(t) /\ lockFile = NoLock) => err'[t] = "create"
  /\ (C17_CreationFailed(t) /\ err'[t] = "create") =>
       /\ pc'[t] \in {"ret", "removeAllListeners"}
       /\ LockedMethod(t) = "register" => res'[t] = "raised"
  /\ (C17_CreationFailed(t) /\ err'[t] \in {"create", "timeout"}) =>
       /\ pc'[t] \in {"ret", "removeAllListeners"}
       /\ ~wrote'[t]
       /\ doc' = doc
       /\ lockFile' = lockFile

C17_CreationFailureIsRaisedAtOnce ==
  [][\A t \in Tasks : C17_LockStep(t)]_vars

\* A register has raised the creation failure at its first attempt, while
\* the lock file of another call is in place.
C17_Witness ==
  \E t \in Tasks :
    /\ op[t] = "register" /\ Returned(t) /\ res[t] = "raised"
    /\ err[t] = "create" /\ ~wrote[t]
    /\ lockFile \in Tasks \ {t}
    /\ InCriticalSection(lockFile)

\* startServer or stopServer has failed with NotFound: the configured entry
\* or the connection of the name is absent.
C18_FailedNotFound(t) ==
  /\ hubCall[t].op \in {"startServer", "stopServer"}
  /\ hubCall[t].pc = "ret"
  /\ hubCall[t].err \in {"ServerNotFound", "ConnectionNotFound"}

\* ---- C18 (as claimed): startServer and stopServer alike, when they fail
\* with NotFound, have not changed and persisted the configuration and have
\* not called start or stop; when they do call start or stop after flipping
\* the disabled flag, the flag was persisted before.
C18_NotFoundLeavesConfigurationAlone ==
  \A t \in HubTasks :
    /\ C18_FailedNotFound(t) =>
         /\ ~hubCall[t].persisted
         /\ hubCall[t].invoked = "none"
    /\ (hubCall[t].invoked = "stop" /\ hubCall[t].disable) => hubCall[t].persisted

\* ---- C19 (as claimed): every connection that disconnectAll removes from
\* the map when it clears it has had disconnect called on it.
C19_ClearedConnectionsWereDisconnected ==
  [][\A t \in HubTasks :
       (hubCall[t].op = "disconnectAll" /\ hubCall[t].pc = "allSettled"
          /\ hubCall'[t].pc = "ret") =>
         \A n \in MapKeys : connections[n] \in disconnectInvoked]_vars

\* Every change detected has been reconciled: its updateConfig has returned
\* normally, and the configuration in place is the one detected last.
C20_AllReconciled ==
  /\ \A t \in HubTasks :
       hubCall[t].op = "updateConfig" /\ hubCall[t].pc = "ret" /\ hubCall[t].res = "ok"
  /\ config = hubCall[MaxHubCalls].newConfig

\* ---- C20 (as claimed): the reconciliations of configuration changes are
\* applied one at a time in the order of detection, so that once all of
\* them have settled the entry of every configured server is the connection
\* built from the configuration detected last.
C20_EntriesBuiltFromLatestConfiguration ==
  C20_AllReconciled =>
    \A i \in DOMAIN config :
      /\ connections[config[i].name] # NoConn
      /\ getServerStatus(config[i].name).disabled = config[i].disabled

====
